---- MODULE Spec2Model ----
(***************************************************************************)
(* Logic-Force-Theory framework: LogicForceProcessor (rule matching,       *)
(* force calculation, state encoding, blending) and QuantumProcessor       *)
(* (session register, operator construction and embedding, measurement).   *)
(*                                                                         *)
(* Numbers.  Python floats are modelled in fixed point: a real x in [0,1]  *)
(* is the integer x * ONE.  Angles are integers in units of 2*pi / TwoPi.  *)
(* A complex vector is a record [vec, nsq]: vec is a sequence of Gaussian  *)
(* integers [re, im] and the vector it stands for is vec / sqrt(nsq).      *)
(* nsq = 0 stands for the result of dividing by a zero norm: every entry   *)
(* is NaN.                                                                 *)
(***************************************************************************)
EXTENDS Integers, Sequences, FiniteSets, TLC

VARIABLES rules, quantum_enabled, num_qubits, state, call, ret

vars == <<rules, quantum_enabled, num_qubits, state, call, ret>>

(***************************************************************************)
(* Bounds of the model                                                     *)
(***************************************************************************)
MaxTextLen == 3
MaxPatterns == 2
MaxQubits == 2
MaxTargets == 2
MaxActions == 3
MaxPairs == 3

(***************************************************************************)
(* Fixed-point units                                                       *)
(***************************************************************************)
ONE == 10000
TwoPi == 12
Pi == TwoPi \div 2

\* natural logarithm of 1..8 in units of 1/ONE, with ln(a*b) = ln(a) + ln(b)
LnTable == <<0, 6931, 10986, 13862, 16094, 17917, 19459, 20793>>
Ln(n) == LnTable[n]

Min(a, b) == IF a <= b THEN a ELSE b
Max(a, b) == IF a >= b THEN a ELSE b

RECURSIVE Pow2(_)
Pow2(k) == IF k = 0 THEN 1 ELSE 2 * Pow2(k - 1)

RECURSIVE SumSet(_, _)
\* sum of f[x] over the finite set S
SumSet(S, f) ==
    IF S = {} THEN 0
    ELSE LET x == CHOOSE y \in S : TRUE IN f[x] + SumSet(S \ {x}, f)

RECURSIVE SumSeq(_)
SumSeq(s) == IF s = <<>> THEN 0 ELSE Head(s) + SumSeq(Tail(s))

SeqsUpTo(S, n) == UNION {[1..k -> S] : k \in 0..n}

(***************************************************************************)
(* Text: input_text.lower().split()                                        *)
(***************************************************************************)
Chars == {"a", "B", " "}
Texts == SeqsUpTo(Chars, MaxTextLen)

Lower(ch) == IF ch = "B" THEN "b" ELSE ch

RECURSIVE SplitFrom(_, _, _)
\* words of text from position i on, cur being the word read so far
SplitFrom(text, i, cur) ==
    IF i > Len(text)
    THEN IF cur = <<>> THEN <<>> ELSE <<cur>>
    ELSE IF text[i] = " "
         THEN IF cur = <<>> THEN SplitFrom(text, i + 1, <<>>)
              ELSE <<cur>> \o SplitFrom(text, i + 1, <<>>)
         ELSE SplitFrom(text, i + 1, Append(cur, text[i]))

Words(text) == SplitFrom([i \in 1..Len(text) |-> Lower(text[i])], 1, <<>>)

(***************************************************************************)
(* Rules                                                                   *)
(***************************************************************************)
None == "None"
RuleIds == {"r1", "r2"}
PatternPool == {<<"a">>, <<"b", "*">>}
PatternLists == SeqsUpTo(PatternPool, MaxPatterns)
RuleContexts == {None, "x"}
CallContexts == {None, "x"}
\* weights offered to add_rule: -0.5, 0, 1, 1.5
WeightGrid == {0 - (ONE \div 2), 0, ONE, ONE + (ONE \div 2)}

LogicRule(patterns, weight, context) ==
    [patterns |-> patterns, weight |-> weight, context |-> context]

LogicForce(magnitude, coherence, direction, uncertainty) ==
    [magnitude |-> magnitude, coherence |-> coherence,
     direction |-> direction, uncertainty |-> uncertainty]

EndsWithStar(pattern) == Len(pattern) > 0 /\ pattern[Len(pattern)] = "*"

StartsWith(word, prefix) ==
    /\ Len(prefix) <= Len(word)
    /\ \A i \in 1..Len(prefix) : word[i] = prefix[i]

pattern_matches(pattern, word) ==
    IF EndsWithStar(pattern)
    THEN StartsWith(word, SubSeq(pattern, 1, Len(pattern) - 1))
    ELSE pattern = word

SeqToSet(s) == {s[i] : i \in 1..Len(s)}

RECURSIVE FilterSeq(_, _)
\* the patterns of ps, in order, that some word of ws matches
FilterSeq(ps, ws) ==
    IF ps = <<>> THEN <<>>
    ELSE IF \E w \in SeqToSet(ws) : pattern_matches(Head(ps), w)
         THEN <<Head(ps)>> \o FilterSeq(Tail(ps), ws)
         ELSE FilterSeq(Tail(ps), ws)

find_pattern_matches(rs, ws) ==
    LET hit == {r \in DOMAIN rs : FilterSeq(rs[r].patterns, ws) # <<>>}
    IN [r \in hit |-> FilterSeq(rs[r].patterns, ws)]

\* the magnitude without the cap min(1.0, ...)
calculate_magnitude_uncapped(rs, matches) ==
    SumSet(DOMAIN matches,
           [r \in DOMAIN matches |-> rs[r].weight * Len(matches[r])])
        \div Cardinality(DOMAIN rs)

calculate_magnitude(rs, matches) ==
    LET total_weight ==
            SumSet(DOMAIN matches,
                   [r \in DOMAIN matches |-> rs[r].weight * Len(matches[r])])
    IN Min(ONE, total_weight \div Cardinality(DOMAIN rs))

\* scipy.stats.entropy of the counts normalised to probabilities:
\* -sum p ln p with p = c / T, which is ln T - (sum c ln c) / T
Entropy(counts, ids) ==
    LET T == SumSet(ids, counts)
    IN Ln(T) - (SumSet(ids, [r \in ids |-> counts[r] * Ln(counts[r])]) \div T)

calculate_coherence(matches) ==
    LET ids == DOMAIN matches
        pattern_counts == [r \in ids |-> Len(matches[r])]
        n == Cardinality(ids)
    IN IF n = 0 THEN ONE
       ELSE IF n = 1 THEN ONE
       ELSE IF Ln(n) = 0 THEN ONE
       ELSE ONE - ((Entropy(pattern_counts, ids) * ONE) \div Ln(n))

\* the direction reduced to [0, 2 pi): a full turn wraps to 0
calculate_direction_wrapped(rs, matches, context) ==
    LET aligned_rules ==
            Cardinality({r \in DOMAIN matches : rs[r].context = context})
    IN IF context = None THEN 0
       ELSE IF aligned_rules = 0 THEN Pi
       ELSE ((TwoPi * aligned_rules) \div Cardinality(DOMAIN matches)) % TwoPi

calculate_direction(rs, matches, context) ==
    LET aligned_rules ==
            Cardinality({r \in DOMAIN matches : rs[r].context = context})
    IN IF context = None THEN 0
       ELSE IF aligned_rules = 0 THEN Pi
       ELSE (TwoPi * aligned_rules) \div Cardinality(DOMAIN matches)

calculate_uncertainty(matches, ws) ==
    LET expand(p) == IF EndsWithStar(p)
                     THEN {w \in SeqToSet(ws) :
                              StartsWith(w, SubSeq(p, 1, Len(p) - 1))}
                     ELSE {p}
        matched_words ==
            UNION {UNION {expand(matches[r][i]) : i \in 1..Len(matches[r])} :
                   r \in DOMAIN matches}
    IN IF ws = <<>> THEN ONE
       ELSE ONE - ((Cardinality(matched_words) * ONE) \div Len(ws))

\* the scalar force with a category counted once however many tokens match
scalar_force_per_category(rule_map, input_text) ==
    LET ws == Words(input_text)
        n == Cardinality(DOMAIN rule_map)
        hit == {r \in DOMAIN rule_map :
                   \E i \in 1..Len(ws), k \in 1..Len(rule_map[r]) :
                       pattern_matches(rule_map[r][k], ws[i])}
    IN Min(ONE, SumSet(hit, [r \in hit |-> ONE \div n]))

\* scalar mode (spec 4.1): min(1.0, sum over the matching (token, category)
\* pairs of 1 / num_categories); rule_map maps a category to its patterns
scalar_force(rule_map, input_text) ==
    LET ws == Words(input_text)
        n == Cardinality(DOMAIN rule_map)
        pairs == {p \in (1..Len(ws)) \X DOMAIN rule_map :
                     \E k \in 1..Len(rule_map[p[2]]) :
                         pattern_matches(rule_map[p[2]][k], ws[p[1]])}
    IN Min(ONE, SumSet(pairs, [p \in pairs |-> ONE \div n]))

ZeroForce == LogicForce(0, ONE, 0, ONE)

\* the force calculation without the early return on an empty match set: the
\* direction is then taken from the context alone
calculate_force_no_early_return(rs, input_text, context) ==
    LET ws == Words(input_text)
        matches == find_pattern_matches(rs, ws)
    IN IF DOMAIN matches = {}
       THEN LogicForce(0, ONE, calculate_direction(rs, matches, context), ONE)
       ELSE LogicForce(calculate_magnitude(rs, matches),
                       calculate_coherence(matches),
                       calculate_direction(rs, matches, context),
                       calculate_uncertainty(matches, ws))

calculate_force(rs, input_text, context) ==
    LET ws == Words(input_text)
        matches == find_pattern_matches(rs, ws)
    IN IF DOMAIN matches = {} THEN ZeroForce
       ELSE LogicForce(calculate_magnitude(rs, matches),
                       calculate_coherence(matches),
                       calculate_direction(rs, matches, context),
                       calculate_uncertainty(matches, ws))

(***************************************************************************)
(* Complex vectors                                                         *)
(***************************************************************************)
Cx(re, im) == [re |-> re, im |-> im]
CZero == Cx(0, 0)
AbsSq(z) == z.re * z.re + z.im * z.im
CAdd(a, b) == Cx(a.re + b.re, a.im + b.im)
CScale(k, z) == Cx(k * z.re, k * z.im)

\* exp(1j * phase) for a phase that is a whole number of quarter turns
Cis(phase) ==
    CASE phase % TwoPi = 0 -> Cx(1, 0)
      [] phase % TwoPi = TwoPi \div 4 -> Cx(0, 1)
      [] phase % TwoPi = TwoPi \div 2 -> Cx(0 - 1, 0)
      [] phase % TwoPi = 3 * (TwoPi \div 4) -> Cx(0, 0 - 1)

SumSq(vec) == SumSeq([i \in 1..Len(vec) |-> AbsSq(vec[i])])

Vector(vec, nsq) == [vec |-> vec, nsq |-> nsq]
NaNVector(dim) == Vector([i \in 1..dim |-> CZero], 0)
Dim(s) == Len(s.vec)
IsFinite(s) == s.nsq > 0
\* sum of squared magnitudes is 1
UnitNorm(s) == IsFinite(s) /\ SumSq(s.vec) = s.nsq
\* every entry has the same magnitude
EqualMagnitudes(s) ==
    IsFinite(s) /\ \A i, j \in 1..Dim(s) : AbsSq(s.vec[i]) = AbsSq(s.vec[j])

\* state /= np.linalg.norm(state), for the state vec * sqrt(ampsq):
\* the norm is sqrt(ampsq * SumSq(vec)); numpy divides by a zero norm without
\* raising and every entry becomes NaN
Normalize(vec, ampsq) ==
    IF ampsq = 0 \/ SumSq(vec) = 0
    THEN NaNVector(Len(vec))
    ELSE Vector(vec, SumSq(vec))

RECURSIVE GCD(_, _)
GCD(a, b) == IF b = 0 THEN a ELSE GCD(b, a % b)

Ok(value) == [outcome |-> "ok", value |-> value]
Raise(error) == [outcome |-> error]

(***************************************************************************)
(* LogicForceProcessor.to_quantum_state / apply_force                      *)
(***************************************************************************)
RECURSIVE IntNegLog2(_)
\* int(-np.log2(u / ONE)) for 0 < u <= ONE: the largest k with 2^k * u <= ONE
IntNegLog2(u) == IF 2 * u <= ONE THEN 1 + IntNegLog2(2 * u) ELSE 0

RECURSIVE CeilNegLog2(_)
\* ceil(-log2(u / ONE)) for 0 < u <= ONE: the smallest k with 2^(-k) <= u / ONE
CeilNegLog2(u) == IF u >= ONE THEN 0 ELSE 1 + CeilNegLog2(2 * u)

\* the qubit count rounded up instead of truncated
magnitude_qubits_ceil(force) == Max(1, CeilNegLog2(force.uncertainty))

magnitude_qubits(force) == Max(1, IntNegLog2(force.uncertainty))

\* angle * i / (dim - 1), defined when the division is exact
Phase(force, i, dim) == (force.direction * i) \div (dim - 1)

\* the phases of the encoding are whole quarter turns
PhaseExact(force) ==
    force.uncertainty > 0 =>
        LET dim == Pow2(magnitude_qubits(force))
        IN \A i \in 0..(dim - 1) :
              /\ (force.direction * i) % (dim - 1) = 0
              /\ Phase(force, i, dim) % (TwoPi \div 4) = 0

\* the encoding with a zero uncertainty taken as one qubit instead of failing
to_quantum_state_unchecked(enabled, force) ==
    IF ~enabled THEN Raise("RuntimeError")
    ELSE LET dim == IF force.uncertainty = 0 THEN 2
                    ELSE Pow2(magnitude_qubits(force))
             vec == [i \in 1..dim |-> Cis(Phase(force, i - 1, dim))]
         IN Ok(Normalize(vec, force.magnitude * force.coherence))

to_quantum_state(enabled, force) ==
    IF ~enabled THEN Raise("RuntimeError")
    ELSE IF force.uncertainty = 0 THEN Raise("OverflowError")
    ELSE LET dim == Pow2(magnitude_qubits(force))
             vec == [i \in 1..dim |-> Cis(Phase(force, i - 1, dim))]
         IN Ok(Normalize(vec, force.magnitude * force.coherence))

\* alpha * force_state + (1 - alpha) * target_state, then normalised; the two
\* states have the same scale nsq, and a common positive factor of the two
\* weights cancels in the normalisation
Blend(alpha, force_state, target_state) ==
    IF ~IsFinite(force_state) \/ ~IsFinite(target_state)
    THEN NaNVector(Dim(target_state))
    ELSE LET g == GCD(alpha, ONE - alpha)
             a == alpha \div g
             b == (ONE - alpha) \div g
             vec == [i \in 1..Dim(target_state) |->
                        CAdd(CScale(a, force_state.vec[i]),
                             CScale(b, target_state.vec[i]))]
         IN Normalize(vec, 1)

\* the outcome of a call together with the caller's array after the call
WithTarget(result, target_state) == result @@ [target_state |-> target_state]

\* apply_force that blends whatever it is given: on a shape mismatch the
\* caller's array is normalised in place and returned
apply_force_unchecked(enabled, target_state, force) ==
    IF ~enabled THEN WithTarget(Raise("RuntimeError"), target_state)
    ELSE LET fs == to_quantum_state(enabled, force)
         IN IF fs.outcome # "ok" THEN WithTarget(fs, target_state)
            ELSE IF Dim(fs.value) # Dim(target_state)
            THEN WithTarget(Ok(target_state), target_state)
            ELSE WithTarget(Ok(Blend(force.magnitude, fs.value, target_state)),
                            target_state)

\* result_state is a new array: target_state is the same after every outcome
apply_force(enabled, target_state, force) ==
    IF ~enabled THEN WithTarget(Raise("RuntimeError"), target_state)
    ELSE LET fs == to_quantum_state(enabled, force)
         IN IF fs.outcome # "ok" THEN WithTarget(fs, target_state)
            ELSE IF Dim(fs.value) # Dim(target_state)
            THEN WithTarget(Raise("ValueError"), target_state)
            ELSE WithTarget(Ok(Blend(force.magnitude, fs.value, target_state)),
                            target_state)

(***************************************************************************)
(* QuantumProcessor                                                        *)
(***************************************************************************)
DefaultNumQubits == 4

initialize_state(n) ==
    Vector([i \in 1..Pow2(n) |-> IF i = 1 THEN Cx(1, 0) ELSE CZero], 1)

Negate(s) == Vector([i \in 1..Dim(s) |-> CScale(0 - 1, s.vec[i])], s.nsq)

Range(k) == [i \in 1..k |-> i - 1]

\* the shape of the operator: the rotation is 2 x 2, each of the k - 1
\* Kronecker steps doubles it, and adding gamma * eye(2^k) broadcasts the
\* 1 x 1 eye(1) over the 2 x 2 rotation when k = 0
create_logic_operator(force, k) ==
    [rows |-> Pow2(Max(k, 1)), cols |-> Pow2(Max(k, 1))]

RECURSIVE Insert(_, _)
Insert(x, s) ==
    IF s = <<>> THEN <<x>>
    ELSE IF x <= Head(s) THEN <<x>> \o s
    ELSE <<Head(s)>> \o Insert(x, Tail(s))

RECURSIVE Sorted(_)
Sorted(s) == IF s = <<>> THEN <<>> ELSE Insert(Head(s), Sorted(Tail(s)))

\* list.index: the first position (from 0) of x in s
IndexOf(s, x) == (CHOOSE i \in 1..Len(s) :
                      s[i] = x /\ \A j \in 1..(i - 1) : s[j] # x) - 1

RECURSIVE Product(_)
Product(s) == IF s = <<>> THEN 1 ELSE Head(s) * Product(Tail(s))

\* the size of operator[idx:idx+1, idx:idx+1]
SliceSize(operator, idx) == IF idx < operator.rows THEN 1 ELSE 0

\* blocks[q + 1] is the factor composed at register position q: "eye" is
\* np.eye(2), <<"slice", idx>> is operator[idx:idx+1, idx:idx+1]
extend_to_system(operator, target_qubits, n) ==
    IF target_qubits = <<>>
    THEN [rows |-> Pow2(n), cols |-> Pow2(n), blocks |-> [q \in 1..n |-> <<"eye">>]]
    ELSE LET sorted == Sorted(target_qubits)
             blocks == [q \in 1..n |->
                           IF (q - 1) \in SeqToSet(sorted)
                           THEN <<"slice", IndexOf(sorted, q - 1)>>
                           ELSE <<"eye">>]
             size == Product([q \in 1..n |->
                           IF blocks[q][1] = "eye" THEN 2
                           ELSE SliceSize(operator, blocks[q][2])])
         IN [rows |-> size, cols |-> size, blocks |-> blocks]

\* an evolution that accepts a full_op of any size and returns an
\* eigenvector of its length
apply_partial_operator_resized(operator, target_qubits, st, n, sign) ==
    LET full_op == extend_to_system(operator, target_qubits, n)
    IN [outcome |-> "ok", op_matrix |-> operator, full_op |-> full_op,
        target_qubits |-> target_qubits,
        value |-> Vector([i \in 1..full_op.rows |->
                             IF i = 1 THEN Cx(sign, 0) ELSE CZero], 1)]

\* full_op @ rho needs full_op.cols = len(state); a full_op of the state's
\* size is the identity, rho_new = rho, and eigh returns the state up to sign
apply_partial_operator(operator, target_qubits, st, n, sign) ==
    LET full_op == extend_to_system(operator, target_qubits, n)
    IN IF full_op.cols # Dim(st)
       THEN [outcome |-> "ValueError", op_matrix |-> operator, full_op |-> full_op,
             target_qubits |-> target_qubits]
       ELSE [outcome |-> "ok", op_matrix |-> operator, full_op |-> full_op,
             target_qubits |-> target_qubits,
             value |-> IF sign = 1 THEN st ELSE Negate(st)]

\* target_qubits is [none |-> TRUE] for the default argument None, and
\* [none |-> FALSE, list |-> the list given] otherwise
apply_logic_operation(force, target_qubits, st, n, sign) ==
    IF target_qubits.none /\ force.uncertainty = 0
    THEN Raise("OverflowError")
    ELSE LET targets == IF target_qubits.none
                        THEN Range(Min(n, IntNegLog2(force.uncertainty)))
                        ELSE target_qubits.list
         IN apply_partial_operator(create_logic_operator(force, Len(targets)),
                                   targets, st, n, sign)

Rat(num, den) == [num |-> num, den |-> den]

\* weight * np.sum(probs[start:end]), in units of 1 / state.nsq
ChunkScore(st, weight, start, end) ==
    weight * SumSeq([j \in 1..(Min(end, Dim(st)) - start) |->
                        AbsSq(st.vec[start + j])])

\* the slice [start, end) of the i-th of n actions (i from 1), with
\* chunk_size = len(probs) // len(actions)
Chunk(i, n, dim) ==
    [start |-> (i - 1) * (dim \div n), end |-> i * (dim \div n)]

calculate_action_probabilities(st, actions) ==
    LET n == Len(actions)
        score == [i \in 1..n |->
                     ChunkScore(st, actions[i].weight,
                                Chunk(i, n, Dim(st)).start,
                                Chunk(i, n, Dim(st)).end)]
        total == SumSeq(score)
    IN [i \in 1..n |-> IF total > 0 THEN Rat(score[i], total)
                       ELSE Rat(score[i], st.nsq)]

\* the last position with the greatest value
ArgMax_last(probs) ==
    CHOOSE i \in 1..Len(probs) :
        /\ \A j \in 1..Len(probs) :
              probs[j].num * probs[i].den <= probs[i].num * probs[j].den
        /\ \A j \in (i + 1)..Len(probs) :
              probs[j].num * probs[i].den < probs[i].num * probs[j].den

\* max(probs.items(), key=...): the first position with the greatest value
ArgMax(probs) ==
    CHOOSE i \in 1..Len(probs) :
        /\ \A j \in 1..Len(probs) :
              probs[j].num * probs[i].den <= probs[i].num * probs[j].den
        /\ \A j \in 1..(i - 1) :
              probs[j].num * probs[i].den < probs[i].num * probs[j].den

\* np.log2 of 1..8 in units of 1/ONE
Log2(x) == (Ln(x) * ONE) \div Ln(2)

\* 1 - H / log2(len(probs)), H the entropy in bits of the values p > 0
calculate_confidence(probs) ==
    LET n == Len(probs)
        entropy_val ==
            SumSeq([i \in 1..n |->
                IF probs[i].num > 0
                THEN (probs[i].num * (Log2(probs[i].den) - Log2(probs[i].num)))
                         \div probs[i].den
                ELSE 0])
        max_entropy == Log2(n)
    IN IF n = 0 THEN 0
       ELSE IF max_entropy = 0 THEN ONE
       ELSE ONE - ((entropy_val * ONE) \div max_entropy)

\* the integer square root
ISqrt(x) == CHOOSE r \in 0..x : r * r <= x /\ x < (r + 1) * (r + 1)

\* min(1, sum |rho| - sum |diag rho|) for rho = outer(state, conj(state)):
\* the sum over i # j of |state[i]| * |state[j]|
calculate_coherence_l1(st) ==
    LET off == SumSeq([k \in 1..(Dim(st) * Dim(st)) |->
                   LET i == ((k - 1) \div Dim(st)) + 1
                       j == ((k - 1) % Dim(st)) + 1
                   IN IF i = j THEN 0
                      ELSE ISqrt(AbsSq(st.vec[i]) * AbsSq(st.vec[j]))])
    IN Min(ONE, (off * ONE) \div st.nsq)

make_decision(st, n, actions) ==
    IF Len(actions) = 0 THEN Raise("ZeroDivisionError")
    ELSE LET probs == calculate_action_probabilities(st, actions)
             chosen == ArgMax(probs)
         IN Ok([probs |-> probs,
                chunks |-> [i \in 1..Len(actions) |->
                               Chunk(i, Len(actions), Dim(st))],
                confidence |-> calculate_confidence(probs),
                chosen_action |-> actions[chosen].name,
                alternate_actions |->
                    {<<actions[i].name, probs[i]>> :
                        i \in (1..Len(actions)) \ {chosen}},
                qubits_used |-> n,
                coherence |-> calculate_coherence_l1(st)])

(***************************************************************************)
(* LogicForceProcessor.add_rule                                            *)
(***************************************************************************)
Put(rs, rule_id, rule) ==
    [r \in DOMAIN rs \cup {rule_id} |-> IF r = rule_id THEN rule ELSE rs[r]]

\* add_rule storing the rule before it validates the weight
add_rule_store_first(rs, rule_id, patterns, weight, context) ==
    [outcome |-> IF ~(0 <= weight /\ weight <= ONE) THEN "ValueError" ELSE "ok",
     rules |-> Put(rs, rule_id, LogicRule(patterns, weight, context))]

add_rule(rs, rule_id, patterns, weight, context) ==
    IF ~(0 <= weight /\ weight <= ONE)
    THEN [outcome |-> "ValueError", rules |-> rs]
    ELSE [outcome |-> "ok", rules |-> Put(rs, rule_id, LogicRule(patterns, weight, context))]

(***************************************************************************)
(* Calibrator (spec 4.6)                                                   *)
(***************************************************************************)
RECURSIVE accumulate(_, _)
\* one pass over the pairs: per expected category, the number of pairs and
\* the number of them whose decision equalled the expected category
accumulate(training_pairs, counts) ==
    IF training_pairs = <<>> THEN counts
    ELSE LET p == Head(training_pairs)
             c == counts[p.expected]
         IN accumulate(Tail(training_pairs),
                [counts EXCEPT ![p.expected] =
                    [successes |-> c.successes +
                                     (IF p.decision = p.expected THEN 1 ELSE 0),
                     totals |-> c.totals + 1]])

\* a calibration that zeroes the weight of a category it saw no pair of
calibrate_reset_unseen(rs, training_pairs) ==
    LET counts == accumulate(training_pairs,
                     [r \in DOMAIN rs |-> [successes |-> 0, totals |-> 0]])
    IN [r \in DOMAIN rs |->
           IF counts[r].totals > 0
           THEN [rs[r] EXCEPT !.weight =
                    (counts[r].successes * ONE) \div counts[r].totals]
           ELSE [rs[r] EXCEPT !.weight = 0]]

\* after all pairs: weight = successes / totals where totals > 0, the prior
\* weight elsewhere
calibrate(rs, training_pairs) ==
    LET counts == accumulate(training_pairs,
                     [r \in DOMAIN rs |-> [successes |-> 0, totals |-> 0]])
    IN [r \in DOMAIN rs |->
           IF counts[r].totals > 0
           THEN [rs[r] EXCEPT !.weight =
                    (counts[r].successes * ONE) \div counts[r].totals]
           ELSE rs[r]]

(***************************************************************************)
(* Inputs                                                                  *)
(***************************************************************************)
Levels == {0, ONE \div 2, ONE}
Directions == {0, TwoPi \div 4, TwoPi \div 2, 3 * (TwoPi \div 4), TwoPi}
Uncertainties == {0, ONE \div 8, ONE \div 4, 3 * (ONE \div 8), ONE \div 2, ONE}

ForceGrid ==
    {LogicForce(m, c, d, u) :
        m \in Levels, c \in Levels, d \in Directions, u \in Uncertainties}

\* the forces whose encoding has Gaussian-integer entries
EncodableForces == {f \in ForceGrid : PhaseExact(f)}

GaussianEntries ==
    {Cx(1, 0), Cx(0, 1), Cx(0 - 1, 0), Cx(0, 0 - 1), CZero, Cx(1, 1), Cx(0 - 1, 0 - 1)}

\* unit-norm states of the scale of an encoded state of the same length
TargetStates ==
    {Vector(v, 2) : v \in {w \in [1..2 -> GaussianEntries] : SumSq(w) = 2}}
    \cup {Vector(v, 4) : v \in [1..4 -> {Cx(1, 0), Cx(0 - 1, 0)}]}

TargetArgs ==
    {[none |-> TRUE]}
    \cup {[none |-> FALSE, list |-> l] : l \in SeqsUpTo(0..MaxQubits, MaxTargets)}

ActionWeights == {0, 1, 2}

\* ordered mappings name -> weight with at most MaxActions distinct names
ActionMaps ==
    {a \in SeqsUpTo([name : 1..MaxActions, weight : ActionWeights], MaxActions) :
        \A i, j \in 1..Len(a) : i # j => a[i].name # a[j].name}

(***************************************************************************)
(* Operations.  The caller is single-threaded: a call is made when no call *)
(* is outstanding (call.op = "idle"), and Return hands its result back.    *)
(***************************************************************************)
Idle == [op |-> "idle"]

\* what the pipeline can decide for a text: a category or nothing
Decisions == RuleIds \cup {None}

\* the labelled pairs over the categories of a rule set, each with the
\* decision the pipeline reaches for its text
TrainingPairs(rs) ==
    SeqsUpTo([expected : DOMAIN rs, decision : Decisions], MaxPairs)

AddRule ==
    /\ call.op = "idle"
    /\ \E rule_id \in RuleIds, patterns \in PatternLists,
       weight \in WeightGrid, context \in RuleContexts :
        LET r == add_rule(rules, rule_id, patterns, weight, context)
        IN /\ call' = [op |-> "add_rule", rule_id |-> rule_id,
                       patterns |-> patterns, weight |-> weight,
                       context |-> context]
           /\ rules' = r.rules
           /\ ret' = IF r.outcome = "ok" THEN Ok(None) ELSE Raise(r.outcome)
           /\ UNCHANGED <<quantum_enabled, num_qubits, state>>

CalculateForce ==
    /\ call.op = "idle"
    /\ \E input_text \in Texts, context \in CallContexts :
        /\ call' = [op |-> "calculate_force", input_text |-> input_text,
                    context |-> context]
        /\ ret' = Ok(calculate_force(rules, input_text, context))
        /\ UNCHANGED <<rules, quantum_enabled, num_qubits, state>>

ScalarForce ==
    /\ call.op = "idle"
    /\ \E input_text \in Texts :
        /\ call' = [op |-> "scalar_force", input_text |-> input_text]
        /\ ret' = Ok(scalar_force([r \in DOMAIN rules |-> rules[r].patterns],
                                 input_text))
        /\ UNCHANGED <<rules, quantum_enabled, num_qubits, state>>

Calibrate ==
    /\ call.op = "idle"
    /\ \E training_pairs \in TrainingPairs(rules) :
        /\ call' = [op |-> "calibrate", training_pairs |-> training_pairs]
        /\ rules' = calibrate(rules, training_pairs)
        /\ ret' = Ok(None)
        /\ UNCHANGED <<quantum_enabled, num_qubits, state>>

ToQuantumState ==
    /\ call.op = "idle"
    /\ \E force \in EncodableForces :
        /\ call' = [op |-> "to_quantum_state", force |-> force]
        /\ ret' = to_quantum_state(quantum_enabled, force)
        /\ UNCHANGED <<rules, quantum_enabled, num_qubits, state>>

ApplyForce ==
    /\ call.op = "idle"
    /\ \E force \in EncodableForces, target_state \in TargetStates :
        /\ call' = [op |-> "apply_force", force |-> force,
                    target_state |-> target_state]
        /\ ret' = apply_force(quantum_enabled, target_state, force)
        /\ UNCHANGED <<rules, quantum_enabled, num_qubits, state>>

ApplyLogicOperation ==
    /\ call.op = "idle"
    /\ \E force \in ForceGrid, target_qubits \in TargetArgs, sign \in {1, 0 - 1} :
        LET r == apply_logic_operation(force, target_qubits, state, num_qubits, sign)
        IN /\ call' = [op |-> "apply_logic_operation", force |-> force,
                       target_qubits |-> target_qubits]
           /\ ret' = r
           /\ state' = IF r.outcome = "ok" THEN r.value ELSE state
           /\ UNCHANGED <<rules, quantum_enabled, num_qubits>>

\* a measurement that collapses the register onto the ground state
MakeDecision_collapsing ==
    /\ call.op = "idle"
    /\ \E actions \in ActionMaps :
        /\ call' = [op |-> "make_decision", actions |-> actions]
        /\ ret' = make_decision(state, num_qubits, actions)
        /\ state' = initialize_state(num_qubits)
        /\ UNCHANGED <<rules, quantum_enabled, num_qubits>>

MakeDecision ==
    /\ call.op = "idle"
    /\ \E actions \in ActionMaps :
        /\ call' = [op |-> "make_decision", actions |-> actions]
        /\ ret' = make_decision(state, num_qubits, actions)
        /\ UNCHANGED <<rules, quantum_enabled, num_qubits, state>>

Return ==
    /\ call.op # "idle"
    /\ call' = Idle
    /\ ret' = Ok(None)
    /\ UNCHANGED <<rules, quantum_enabled, num_qubits, state>>

(***************************************************************************)
(* Specifications                                                          *)
(***************************************************************************)
NoRules == [r \in {} |-> None]

InitWith(enabled, qubits) ==
    /\ rules = NoRules
    /\ quantum_enabled \in enabled
    /\ num_qubits \in qubits
    /\ state = initialize_state(num_qubits)
    /\ call = Idle
    /\ ret = Ok(None)

Init == InitWith(BOOLEAN, 1..MaxQubits)

Next ==
    \/ AddRule
    \/ CalculateForce
    \/ ScalarForce
    \/ Calibrate
    \/ ToQuantumState
    \/ ApplyForce
    \/ ApplyLogicOperation
    \/ MakeDecision
    \/ Return

Spec == Init /\ [][Next]_vars

\* the rule set and the force calculation, on a processor built with defaults
InitForce == InitWith({TRUE}, {DefaultNumQubits})
NextForce == AddRule \/ CalculateForce \/ ScalarForce \/ Return
SpecForce == InitForce /\ [][NextForce]_vars

\* calibration of a rule set with default weights
InitCalibrate ==
    /\ rules \in {[r \in S |-> LogicRule(<<<<"a">>>>, ONE, None)] :
                    S \in SUBSET RuleIds}
    /\ quantum_enabled = TRUE
    /\ num_qubits = DefaultNumQubits
    /\ state = initialize_state(num_qubits)
    /\ call = Idle
    /\ ret = Ok(None)
NextCalibrate == Calibrate \/ Return
SpecCalibrate == InitCalibrate /\ [][NextCalibrate]_vars

\* state encoding, blending and the session register
InitQuantum == InitWith(BOOLEAN, 1..MaxQubits)
NextQuantum ==
    ToQuantumState \/ ApplyForce \/ ApplyLogicOperation \/ MakeDecision \/ Return
SpecQuantum == InitQuantum /\ [][NextQuantum]_vars

(***************************************************************************)
(* Properties                                                              *)
(***************************************************************************)
ReturnedState ==
    /\ call.op \in {"to_quantum_state", "apply_force"}
    /\ ret.outcome = "ok"

InRange(x, lo, hi) == lo <= x /\ x <= hi

\* C1: every state returned by to_quantum_state or apply_force, and the
\* session state after apply_logic_operation, has squared magnitudes summing
\* to 1.
C1_ReturnedStatesAreUnitNorm ==
    /\ ReturnedState => UnitNorm(ret.value)
    /\ (call.op = "apply_logic_operation" /\ ret.outcome = "ok") => UnitNorm(state)

\* C2: the action-probability mapping computed by make_decision sums to 1
\* for every non-empty actions mapping.
C2_ActionProbabilitiesSumToOne ==
    (call.op = "make_decision" /\ Len(call.actions) > 0) =>
        /\ ret.outcome = "ok"
        /\ \A i \in 1..Len(ret.value.probs) :
              /\ ret.value.probs[i].den = ret.value.probs[1].den
              /\ SumSeq([j \in 1..Len(ret.value.probs) |-> ret.value.probs[j].num])
                     = ret.value.probs[i].den

\* C3: for non-empty text the force returned by calculate_force has
\* magnitude, coherence and uncertainty in [0,1] and direction in [0, 2 pi].
C3_ForceFieldsInRange ==
    (call.op = "calculate_force" /\ Words(call.input_text) # <<>>) =>
        /\ ret.outcome = "ok"
        /\ InRange(ret.value.magnitude, 0, ONE)
        /\ InRange(ret.value.coherence, 0, ONE)
        /\ InRange(ret.value.uncertainty, 0, ONE)
        /\ InRange(ret.value.direction, 0, TwoPi)

\* a matched force at the ends of the ranges: capped magnitude, full
\* alignment (direction 2 pi) and full coverage (uncertainty 0)
C3_Witness ==
    /\ call.op = "calculate_force"
    /\ Words(call.input_text) # <<>>
    /\ ret.value.magnitude = ONE
    /\ ret.value.direction = TwoPi
    /\ ret.value.uncertainty = 0
    /\ \E r \in DOMAIN rules : rules[r].weight * Len(rules[r].patterns) > ONE

\* two matched categories with different pattern counts: a coherence
\* strictly between 0 and 1
C3_WitnessCoherence ==
    /\ call.op = "calculate_force"
    /\ 0 < ret.value.coherence /\ ret.value.coherence < ONE

NoTokenMatches(rs, text) ==
    \A r \in DOMAIN rs : \A i \in 1..Len(rs[r].patterns) :
        \A w \in SeqToSet(Words(text)) : ~pattern_matches(rs[r].patterns[i], w)

\* C4: when no token of the text matches any pattern of any rule (the empty
\* rule set and the empty text included), calculate_force returns the
\* canonical zero force: magnitude 0, coherence 1, direction 0, uncertainty 1.
C4_NoMatchGivesZeroForce ==
    (call.op = "calculate_force" /\ NoTokenMatches(rules, call.input_text)) =>
        /\ ret.outcome = "ok"
        /\ ret.value = LogicForce(0, ONE, 0, ONE)

\* a non-empty rule set, a non-empty text and a context, and no match
C4_Witness ==
    /\ call.op = "calculate_force"
    /\ NoTokenMatches(rules, call.input_text)
    /\ Words(call.input_text) # <<>>
    /\ call.context # None
    /\ \E r \in DOMAIN rules : rules[r].patterns # <<>>
    /\ ret.value = LogicForce(0, ONE, 0, ONE)

\* C5: add_rule with a weight outside [0,1] fails and leaves the rule set
\* unchanged; with a weight in [0,1] it stores the rule under rule_id and
\* leaves the other rules alone; every stored weight is in [0,1].
C5_AddRuleValidatesWeight ==
    [][(call'.op = "add_rule") =>
          /\ IF call'.weight < 0 \/ call'.weight > ONE
             THEN ret'.outcome # "ok" /\ rules' = rules
             ELSE /\ ret'.outcome = "ok"
                  /\ DOMAIN rules' = DOMAIN rules \cup {call'.rule_id}
                  /\ rules'[call'.rule_id] =
                        [patterns |-> call'.patterns, weight |-> call'.weight,
                         context |-> call'.context]
                  /\ \A r \in DOMAIN rules \ {call'.rule_id} : rules'[r] = rules[r]
          /\ \A r \in DOMAIN rules' : InRange(rules'[r].weight, 0, ONE)]_vars

\* a rejected replacement of an existing rule
C5_Witness ==
    /\ call.op = "add_rule"
    /\ call.weight > ONE
    /\ ret.outcome = "ValueError"
    /\ call.rule_id \in DOMAIN rules
    /\ rules[call.rule_id].patterns # call.patterns

QubitBound == 8

\* C6 as stated: the qubit count of to_quantum_state is
\* max(1, ceil(-log2(uncertainty))): the larger of 1 and the smallest k with
\* 2^(-k) <= uncertainty, and the state has dimension 2 to that count.
C6_QubitCountIsCeiling ==
    (call.op = "to_quantum_state" /\ ret.outcome = "ok") =>
        \E k \in 0..QubitBound :
            /\ ONE <= Pow2(k) * call.force.uncertainty
            /\ \A j \in 0..(k - 1) : ONE > Pow2(j) * call.force.uncertainty
            /\ Dim(ret.value) = Pow2(Max(1, k))

\* C6 amended: the qubit count is max(1, floor(-log2(uncertainty))): the
\* larger of 1 and the largest k with 2^k * uncertainty <= 1, and the state
\* has dimension 2 to that count.
C6_QubitCountIsFloor ==
    (call.op = "to_quantum_state" /\ ret.outcome = "ok") =>
        \E k \in 0..QubitBound :
            /\ Pow2(k) * call.force.uncertainty <= ONE
            /\ Pow2(k + 1) * call.force.uncertainty > ONE
            /\ Dim(ret.value) = Pow2(Max(1, k))

\* an uncertainty of 3/8, between two powers of two: floor 1, ceiling 2
C6_Witness ==
    /\ call.op = "to_quantum_state"
    /\ ret.outcome = "ok"
    /\ call.force.uncertainty = 3 * (ONE \div 8)
    /\ Dim(ret.value) = 2

\* C7: for a force of magnitude 0, to_quantum_state returns a unit-norm state
\* whose amplitudes all have the same magnitude.
C7_ZeroMagnitudeIsPureUncertainty ==
    (call.op = "to_quantum_state" /\ ret.outcome = "ok"
        /\ call.force.magnitude = 0) =>
        UnitNorm(ret.value) /\ EqualMagnitudes(ret.value)

\* C8: no operation returns, or stores into the session, a state with a
\* non-finite entry: a normalisation that would divide by a zero norm fails.
C8_NoNonFiniteState ==
    /\ ReturnedState => IsFinite(ret.value)
    /\ IsFinite(state)

\* C9: a force of uncertainty 0 is rejected by to_quantum_state and by
\* apply_logic_operation with default target_qubits: an error, no state
\* returned, the session state and num_qubits unchanged.
C9_ZeroUncertaintyRejected ==
    [][/\ (call'.op = "to_quantum_state" /\ call'.force.uncertainty = 0) =>
              ret'.outcome # "ok"
       /\ (call'.op = "apply_logic_operation" /\ call'.target_qubits.none
              /\ call'.force.uncertainty = 0) =>
              /\ ret'.outcome # "ok"
              /\ state' = state
              /\ num_qubits' = num_qubits]_vars

\* the default-target operation rejected on a session an earlier operation
\* has changed
C9_Witness ==
    /\ call.op = "apply_logic_operation"
    /\ call.target_qubits.none
    /\ call.force.uncertainty = 0
    /\ ret.outcome = "OverflowError"
    /\ state = Negate(initialize_state(num_qubits))

\* the encoding rejected while quantum processing is enabled
C9_WitnessEncode ==
    /\ call.op = "to_quantum_state"
    /\ quantum_enabled
    /\ call.force.uncertainty = 0
    /\ ret.outcome = "OverflowError"

\* C10: for target positions within [0, num_qubits) the operator built by
\* _extend_to_system is 2^num_qubits x 2^num_qubits, with a 2 x 2 block at
\* every position, and apply_logic_operation succeeds.
C10_ExtendedOperatorHasSystemSize ==
    (/\ call.op = "apply_logic_operation"
     /\ ~call.target_qubits.none
     /\ \A i \in 1..Len(call.target_qubits.list) :
           call.target_qubits.list[i] < num_qubits) =>
        /\ ret.outcome = "ok"
        /\ ret.full_op.rows = Pow2(num_qubits)
        /\ ret.full_op.cols = Pow2(num_qubits)

\* C11: the measurer's chunks partition the index range [0, dim) among the
\* n actions in insertion order: action i < n - 1 gets [i*c, (i+1)*c) with
\* c = dim div n, the last action gets [(n-1)*c, dim), and every index
\* belongs to exactly one chunk.
C11_ChunksPartitionIndexRange ==
    (call.op = "make_decision" /\ ret.outcome = "ok") =>
        LET n == Len(call.actions)
            dim == Dim(state)
            c == dim \div n
            chunks == ret.value.chunks
        IN /\ \A i \in 1..(n - 1) :
                 chunks[i].start = (i - 1) * c /\ chunks[i].end = i * c
           /\ chunks[n].start = (n - 1) * c /\ chunks[n].end = dim
           /\ \A x \in 0..(dim - 1) :
                 Cardinality({i \in 1..n :
                     chunks[i].start <= x /\ x < chunks[i].end}) = 1

ProbLeq(p, q) == p.num * q.den <= q.num * p.den

\* C12: make_decision chooses an action whose normalised score is the
\* maximum; among several with the maximum, the earliest in insertion order;
\* alternate_actions holds exactly the other actions with their scores.
C12_ChosenIsFirstMaximum ==
    (call.op = "make_decision" /\ ret.outcome = "ok") =>
        \E i \in 1..Len(call.actions) :
            /\ ret.value.chosen_action = call.actions[i].name
            /\ \A j \in 1..Len(call.actions) :
                  ProbLeq(ret.value.probs[j], ret.value.probs[i])
            /\ \A j \in 1..(i - 1) :
                  ~ProbLeq(ret.value.probs[i], ret.value.probs[j])
            /\ ret.value.alternate_actions =
                  {<<call.actions[j].name, ret.value.probs[j]>> :
                      j \in {k \in 1..Len(call.actions) : k # i}}

\* three actions whose scores are all equal (0): the first is chosen and the
\* other two are the alternates
C12_WitnessTie ==
    /\ call.op = "make_decision"
    /\ ret.outcome = "ok"
    /\ Len(call.actions) = 3
    /\ \A j \in 1..3 : ret.value.probs[j].num = 0
    /\ ret.value.chosen_action = call.actions[1].name
    /\ Cardinality(ret.value.alternate_actions) = 2

\* a strict maximum: the first action holds all the probability
C12_Witness ==
    /\ call.op = "make_decision"
    /\ ret.outcome = "ok"
    /\ Len(call.actions) = 2
    /\ ret.value.probs[1] = Rat(2, 2)
    /\ ret.value.probs[2] = Rat(0, 2)
    /\ ret.value.chosen_action = call.actions[1].name
    /\ ret.value.alternate_actions = {<<call.actions[2].name, Rat(0, 2)>>}

\* the categories with a pattern that some token of the text matches
MatchedCategories(rs, text) ==
    {r \in DOMAIN rs :
        \E i \in 1..Len(rs[r].patterns) : \E w \in SeqToSet(Words(text)) :
            pattern_matches(rs[r].patterns[i], w)}

\* C13 as stated: the direction returned by calculate_force lies in
\* [0, 2 pi) and is never 2 pi.
C13_DirectionBelowTwoPi ==
    (call.op = "calculate_force") =>
        0 <= ret.value.direction /\ ret.value.direction < TwoPi

\* C13 amended: the direction lies in [0, 2 pi], and it is 2 pi exactly when
\* a context is given, some category matches and every matched category
\* carries that context.
C13_DirectionTwoPiIffFullyAligned ==
    (call.op = "calculate_force") =>
        /\ 0 <= ret.value.direction /\ ret.value.direction <= TwoPi
        /\ ret.value.direction = TwoPi <=>
              /\ call.context # None
              /\ MatchedCategories(rules, call.input_text) # {}
              /\ \A r \in MatchedCategories(rules, call.input_text) :
                    rules[r].context = call.context

\* two matched categories, both carrying the context of the call
C13_Witness ==
    /\ call.op = "calculate_force"
    /\ Cardinality(MatchedCategories(rules, call.input_text)) = 2
    /\ call.context # None
    /\ ret.value.direction = TwoPi

\* the number of (token, category) pairs in which the token matches a
\* pattern of the category
MatchingPairs(rs, text) ==
    Cardinality({p \in (1..Len(Words(text))) \X DOMAIN rs :
        \E k \in 1..Len(rs[p[2]].patterns) :
            pattern_matches(rs[p[2]].patterns[k], Words(text)[p[1]])})

C15_WitnessBoth ==
    /\ call.op = "scalar_force"
    /\ Cardinality(DOMAIN rules) = 2
    /\ Cardinality(MatchedCategories(rules, call.input_text)) = 2
    /\ MatchingPairs(rules, call.input_text) = 2
    /\ ret.value = ONE

\* the length of the state to_quantum_state builds for a force: 2^max(1, q)
EncodedDim(force) == Pow2(Max(1, IntNegLog2(force.uncertainty)))

\* C14: apply_force returns a blended state only when quantum processing is
\* enabled and the encoded state has the length of target_state; disabled, it
\* raises RuntimeError (as to_quantum_state does); with different lengths it
\* raises ValueError; target_state is the same after either failure.
C14_ApplyForceErrorContract ==
    /\ (call.op = "to_quantum_state" /\ ~quantum_enabled) =>
           ret.outcome = "RuntimeError"
    /\ (call.op = "apply_force") =>
        /\ ret.outcome = "ok" =>
              /\ quantum_enabled
              /\ call.force.uncertainty # 0
              /\ EncodedDim(call.force) = Dim(call.target_state)
              /\ Dim(ret.value) = Dim(call.target_state)
        /\ ~quantum_enabled => ret.outcome = "RuntimeError"
        /\ (/\ quantum_enabled
            /\ call.force.uncertainty # 0
            /\ EncodedDim(call.force) # Dim(call.target_state)) =>
                ret.outcome = "ValueError"
        /\ ret.outcome \in {"RuntimeError", "ValueError"} =>
              ret.target_state = call.target_state

\* an enabled processor refused a target of another length
C14_Witness ==
    /\ call.op = "apply_force"
    /\ quantum_enabled
    /\ call.force.uncertainty # 0
    /\ EncodedDim(call.force) = 4
    /\ Dim(call.target_state) = 2
    /\ ret.outcome = "ValueError"

C14_WitnessDisabled ==
    /\ call.op = "apply_force"
    /\ ~quantum_enabled
    /\ ret.outcome = "RuntimeError"

C14_WitnessBlended ==
    /\ call.op = "apply_force"
    /\ ret.outcome = "ok"
    /\ IsFinite(ret.value)
    /\ ret.value # call.target_state

\* the positions of the pairs labelled with a category, and of those among
\* them that the pipeline decided correctly
PairsOf(training_pairs, r) ==
    {i \in 1..Len(training_pairs) : training_pairs[i].expected = r}

CorrectPairsOf(training_pairs, r) ==
    {i \in PairsOf(training_pairs, r) : training_pairs[i].decision = r}

\* C16: after calibrate, a category with at least one pair has weight
\* (its correctly decided pairs) / (its pairs) and a category with no pair
\* keeps its weight: all correct gives 1.0, none correct 0.0.
C16_CalibrateSetsSuccessRate ==
    [][call'.op = "calibrate" =>
        /\ DOMAIN rules' = DOMAIN rules
        /\ \A r \in DOMAIN rules :
            LET total == Cardinality(PairsOf(call'.training_pairs, r))
                correct == Cardinality(CorrectPairsOf(call'.training_pairs, r))
            IN /\ total > 0 => rules'[r].weight = (correct * ONE) \div total
               /\ total = 0 => rules'[r].weight = rules[r].weight
               /\ (total > 0 /\ correct = total) => rules'[r].weight = ONE
               /\ (total > 0 /\ correct = 0) => rules'[r].weight = 0
               /\ rules'[r].patterns = rules[r].patterns
               /\ rules'[r].context = rules[r].context]_vars

\* one category calibrated to a half while the other, unseen, kept 1.0
C16_Witness ==
    /\ call.op = "calibrate"
    /\ Len(call.training_pairs) = 2
    /\ PairsOf(call.training_pairs, "r2") = {}
    /\ Cardinality(CorrectPairsOf(call.training_pairs, "r1")) = 1
    /\ DOMAIN rules = RuleIds
    /\ rules["r1"].weight = ONE \div 2
    /\ rules["r2"].weight = ONE

\* C17: for every number k of target qubits that apply_logic_operation
\* passes to _create_logic_operator, 0 <= k <= num_qubits, the operator is a
\* 2^k x 2^k matrix.
C17_OperatorIsTwoToTheK ==
    (/\ call.op = "apply_logic_operation"
     /\ ret.outcome \in {"ok", "ValueError"}
     /\ Len(ret.target_qubits) <= num_qubits) =>
        /\ ret.op_matrix.rows = Pow2(Len(ret.target_qubits))
        /\ ret.op_matrix.cols = Pow2(Len(ret.target_qubits))

\* C18: the session starts in the ground state, and in every state reached
\* by apply_logic_operation calls (returning or raising) and make_decision
\* calls num_qubits is what it was and the state has 2^num_qubits entries.
C18_StateLengthIsTwoToTheNumQubits ==
    /\ state = initialize_state(num_qubits)
    /\ [](Dim(state) = Pow2(num_qubits))
    /\ [][num_qubits' = num_qubits]_vars

\* an evolved session after a call that raised
C18_Witness ==
    /\ call.op = "apply_logic_operation"
    /\ ret.outcome = "ValueError"
    /\ state = Negate(initialize_state(num_qubits))
    /\ Dim(state) = Pow2(num_qubits)

\* C19: a make_decision call, failing or not, leaves the state vector and
\* num_qubits as they were, and what it returns is what make_decision
\* returns for the same actions in the state it leaves behind.
C19_MakeDecisionIsReadOnly ==
    [][call'.op = "make_decision" =>
        /\ state' = state
        /\ num_qubits' = num_qubits
        /\ ret' = make_decision(state', num_qubits', call'.actions)]_vars

\* a decision measured on an evolved session
C19_Witness ==
    /\ call.op = "make_decision"
    /\ ret.outcome = "ok"
    /\ Len(call.actions) = 2
    /\ state = Negate(initialize_state(num_qubits))

\* the call failed on an empty actions mapping
C19_WitnessEmpty ==
    /\ call.op = "make_decision"
    /\ call.actions = <<>>
    /\ ret.outcome = "ZeroDivisionError"
    /\ state = Negate(initialize_state(num_qubits))

====
